---- MODULE Spec2Model ----
(***************************************************************************)
(* PinMeTo location MCP server: the process-wide token cache               *)
(* (helpers/token.py), the authenticated request and the paginated walk    *)
(* (helpers/helpers.py) and the two tools and the startup (main.py).       *)
(*                                                                         *)
(* Process 0 is the startup code of main.py; the other processes are tool  *)
(* invocations running as coroutines on one asyncio event loop.  A step of *)
(* the model is the code a coroutine runs between two suspension points    *)
(* (an outbound HTTP call, or the close of the HTTP client).               *)
(***************************************************************************)
EXTENDS Integers, Sequences, FiniteSets, TLC

\* ---------------------------------------------------------------- bounds
MaxTicks == 2        \* clock advances per behaviour
MaxTokens == 3       \* tokens the authorization endpoint issues per behaviour
MaxPages == 2        \* longest page chain of the listing endpoint

\* ------------------------------------------------------------- constants
_TOKEN_CACHE_SECONDS == 59 * 60

Callers == {1, 2}
Procs == {0} \cup Callers

None == "None"                       \* Python's None for a configuration value
NoToken == 0                         \* Python's None for _cached_token
EnvValues == {None, "", "x"}         \* unset, set but empty, set
Items == {1, 2}
ItemStr == [i \in Items |-> IF i = 1 THEN "{'id': 1}" ELSE "{'id': 2}"]
PageData == {<< >>, <<1, 2>>}
ClockSteps == {1, _TOKEN_CACHE_SECONDS - 1}

MissingText == "Missing PINMETO_API_URL or PINMETO_ACCOUNT_ID environment variable."
UnableText == "Unable to fetch location data."
EmptyText == "The response was empty..."
WarningLine == "Not All pages were successfully fetched, collected data:"
Divider == "--------------------"
LocationText == "{'storeId': '1'}"

VARIABLES
    clock,                  \* time.time()
    ticks,                  \* number of clock advances so far
    environ,                \* os.environ
    issued,                 \* tokens issued by the authorization endpoint
    chain,                  \* the listing endpoint: page i is served at URL i; a page
                            \* is fixed by the first GET that asks for it
    _cached_token,
    _cached_token_time,
    __PMT_API_URL,          \* main.py globals, bound at startup
    __ACCOUNT_ID,
    pc,                     \* position of each process
    op,                     \* the tool a caller runs
    now,                    \* local of get_pmt_access_token(_async)
    token,                  \* local of make_pmt_request / _fetch_and_store_token
    next_url,               \* local of make_paginated_pmt_request (0 is None)
    all_data,
    are_all_pages_fetched,
    result,                 \* what the tool call gave its caller
    calledAt,               \* clock when the current get_token call was made
    fetches,                \* _fetch_and_store_token calls of the current get_token call
    posts,                  \* client.post calls of the current get_token call
    requested,              \* URLs the tool call issued a GET for, in order
    attempted,              \* URLs the tool call called make_pmt_request for, in order
    answered,               \* GETs of the tool call that have been answered
    entity,                 \* the single-entity endpoint: its answer, fixed by the
                            \* first GET that asks for it
    grants                  \* the authorization endpoint's log: token i went to
                            \* grants[i].to, whose get_token call began at grants[i].began

vars == <<clock, ticks, environ, issued, chain, _cached_token, _cached_token_time,
          __PMT_API_URL, __ACCOUNT_ID, pc, op, now, token, next_url, all_data,
          are_all_pages_fetched, result, calledAt, fetches, posts, requested,
          attempted, answered, entity, grants>>

\* ------------------------------------------------------------ pure parts
\* Python truthiness of a str
Falsy(s) == s = "" \/ s = None

\* f"{value}/oauth/token": the parts of the formatted string
FormatTokenUrl(v) == << (IF v = None THEN "None" ELSE v), "/oauth/token" >>

\* truthiness of the formatted string: empty only when every part is empty
FalsyParts(parts) == \A i \in 1..Len(parts) : parts[i] = ""

\* httpx accepts only an absolute http(s) URL
IsAbsoluteUrl(v) == v = "x"

NoneResp == [isNone |-> TRUE, hasData |-> FALSE, data |-> << >>,
             hasPaging |-> FALSE, nextUrl |-> 0]

Body(page) == [isNone |-> FALSE, hasData |-> page.hasData, data |-> page.data,
               hasPaging |-> page.hasPaging, nextUrl |-> page.nextUrl]

\* `not resp` for None or a decoded JSON object
FalsyResp(resp) == resp.isNone \/ (~resp.hasData /\ ~resp.hasPaging)

\* resp.get("data", [])
GetData(resp) == IF resp.hasData THEN resp.data ELSE << >>

\* variant of the read of the next link: the address of the page just read
\* is taken for the next one
GetNextUrlSame(resp) == IF resp.hasPaging /\ resp.nextUrl # 0 THEN resp.nextUrl - 1 ELSE 0

\* resp.get("paging", {}).get("nextUrl")
GetNextUrl(resp) == IF resp.hasPaging THEN resp.nextUrl ELSE 0

PageRec == [ok : BOOLEAN, hasData : BOOLEAN, data : PageData,
            hasPaging : BOOLEAN, nextUrl : 0..MaxPages]

\* the pages the listing endpoint can serve at URL u: a page names the next
\* URL or none, and a failing page has a body the client never sees
Pages(u) ==
    {r \in PageRec :
        /\ ~r.hasData => r.data = << >>
        /\ r.nextUrl \in {0, u + 1}
        /\ r.nextUrl # 0 => r.hasPaging}

\* ------------------------------------------------------------------ Init
Init ==
    /\ clock = 0
    /\ ticks = 0
    /\ environ \in [PINMETO_API_URL : EnvValues, PINMETO_APP_ID : EnvValues,
                    PINMETO_APP_SECRET : EnvValues, PINMETO_ACCOUNT_ID : EnvValues,
                    PMT_ACCESS_TOKEN : {NoToken}]
    /\ issued = 0
    /\ chain = << >>
    /\ _cached_token = NoToken
    /\ _cached_token_time = 0
    /\ __PMT_API_URL = None
    /\ __ACCOUNT_ID = None
    /\ pc = [p \in Procs |-> IF p = 0 THEN "start" ELSE "idle"]
    /\ op = [p \in Procs |-> "none"]
    /\ now = [p \in Procs |-> 0]
    /\ token = [p \in Procs |-> NoToken]
    /\ next_url = [p \in Procs |-> 0]
    /\ all_data = [p \in Procs |-> << >>]
    /\ are_all_pages_fetched = [p \in Procs |-> TRUE]
    /\ result = [p \in Procs |-> [exc |-> "none", text |-> << >>]]
    /\ calledAt = [p \in Procs |-> 0]
    /\ fetches = [p \in Procs |-> 0]
    /\ posts = [p \in Procs |-> 0]
    /\ requested = [p \in Procs |-> << >>]
    /\ attempted = [p \in Procs |-> << >>]
    /\ answered = [p \in Procs |-> 0]
    /\ entity = "unasked"
    /\ grants = << >>

\* ----------------------------------------------------------------- clock
\* time passes while somebody is left to read the clock; the startup reads
\* it first, at the origin
Tick ==
    /\ ticks < MaxTicks
    /\ pc[0] \notin {"start", "crashed"}
    /\ \E p \in Callers : pc[p] # "done"
    /\ \E d \in ClockSteps : clock' = clock + d
    /\ ticks' = ticks + 1
    /\ UNCHANGED <<environ, issued, chain, _cached_token, _cached_token_time,
                   __PMT_API_URL, __ACCOUNT_ID, pc, op, now, token, next_url,
                   all_data, are_all_pages_fetched, result, calledAt, fetches,
                   posts, requested, attempted, answered, entity, grants>>

\* ------------------------------------------------------- helpers/token.py
\* variants of the cache test: the window taken as 59 seconds, and the
\* boundary included
CacheValidSeconds(t) ==
    /\ _cached_token # NoToken
    /\ (t - _cached_token_time) < 59

CacheValidInclusive(t) ==
    /\ _cached_token # NoToken
    /\ (t - _cached_token_time) <= _TOKEN_CACHE_SECONDS

\* variant of the cache test: a call made while another call's exchange is
\* in flight takes what the cache holds instead of exchanging
CacheValidOrInFlight(t) ==
    \/ \E q \in Procs : pc[q] \in {"post", "closing"}
    \/ /\ _cached_token # NoToken
       /\ (t - _cached_token_time) < _TOKEN_CACHE_SECONDS

\* the cache test of get_pmt_access_token and get_pmt_access_token_async
CacheValid(t) ==
    /\ _cached_token # NoToken
    /\ (t - _cached_token_time) < _TOKEN_CACHE_SECONDS

\* the configuration test of _fetch_and_store_token
ConfigMissing ==
    \/ FalsyParts(FormatTokenUrl(environ.PINMETO_API_URL))
    \/ Falsy(environ.PINMETO_APP_ID)
    \/ Falsy(environ.PINMETO_APP_SECRET)

\* variant of the stored time: the clock is read again when the exchange
\* has returned
StoredTimeAtReturn(p) == clock

\* the time stored with a fetched token
StoredTime(p) == now[p]

\* variant of the continuation: the GET of the page after is issued along
\* with the GET of the page asked for
ContinuePrefetch(p) ==
    IF p = 0
    THEN /\ pc' = [pc EXCEPT ![p] = "serving"]
         /\ __PMT_API_URL' = environ.PINMETO_API_URL
         /\ __ACCOUNT_ID' = environ.PINMETO_ACCOUNT_ID
         /\ UNCHANGED <<result, requested>>
    ELSE /\ pc' = [pc EXCEPT ![p] = "get"]
         /\ requested' = [requested EXCEPT ![p] = @ \o <<next_url[p], next_url[p] + 1>>]
         /\ UNCHANGED <<result, __PMT_API_URL, __ACCOUNT_ID>>

\* the caller of get_token goes on with the token: the startup binds the two
\* globals and serves, make_pmt_request issues its GET
Continue(p) ==
    IF p = 0
    THEN /\ pc' = [pc EXCEPT ![p] = "serving"]
         /\ __PMT_API_URL' = environ.PINMETO_API_URL
         /\ __ACCOUNT_ID' = environ.PINMETO_ACCOUNT_ID
         /\ UNCHANGED <<result, requested>>
    ELSE /\ pc' = [pc EXCEPT ![p] = "get"]
         /\ requested' = [requested EXCEPT ![p] = Append(@, next_url[p])]
         /\ UNCHANGED <<result, __PMT_API_URL, __ACCOUNT_ID>>

\* an exception leaves get_token: nothing between it and the caller of the
\* tool (or the interpreter, at startup) catches it
Raise(p, e) ==
    /\ pc' = [pc EXCEPT ![p] = IF p = 0 THEN "crashed" ELSE "done"]
    /\ result' = [result EXCEPT ![p] = [exc |-> e, text |-> << >>]]
    /\ UNCHANGED <<requested, __PMT_API_URL, __ACCOUNT_ID>>

\* get_pmt_access_token(_async) up to its first suspension point: the cached
\* token, or _fetch_and_store_token up to client.post
GetTokenEntry(p) ==
    /\ now' = [now EXCEPT ![p] = clock]
    /\ calledAt' = [calledAt EXCEPT ![p] = clock]
    /\ IF CacheValid(clock)
       THEN /\ token' = [token EXCEPT ![p] = _cached_token]
            /\ fetches' = [fetches EXCEPT ![p] = 0]
            /\ posts' = [posts EXCEPT ![p] = 0]
            /\ Continue(p)
       ELSE /\ fetches' = [fetches EXCEPT ![p] = 1]
            /\ UNCHANGED token
            /\ IF ConfigMissing
               THEN /\ posts' = [posts EXCEPT ![p] = 0]
                    /\ Raise(p, "EnvironmentError")
               ELSE /\ posts' = [posts EXCEPT ![p] = 1]
                    /\ pc' = [pc EXCEPT ![p] = "post"]
                    /\ UNCHANGED <<result, requested, __PMT_API_URL, __ACCOUNT_ID>>
    /\ UNCHANGED <<clock, ticks, environ, issued, chain, _cached_token,
                   _cached_token_time, op, next_url, all_data,
                   are_all_pages_fetched, answered, entity, grants>>

\* startup of main.py: the synchronous get_pmt_access_token
get_pmt_access_token ==
    /\ pc[0] = "start"
    /\ GetTokenEntry(0)
    /\ UNCHANGED attempted

\* make_pmt_request(url) up to its first suspension point
make_pmt_request(p) ==
    /\ pc[p] = "request"
    /\ attempted' = [attempted EXCEPT ![p] = Append(@, next_url[p])]
    /\ GetTokenEntry(p)

PostErrors == {"HTTPStatusError", "TimeoutException", "KeyError"}

\* variant of the publication: os.environ is assigned before the test of
\* access_token, so an answer without the field clears the published token
PublishedEnvEarly(outcome, tok) ==
    IF outcome \in {"ok", "KeyError"}
    THEN [environ EXCEPT !.PMT_ACCESS_TOKEN = tok] ELSE environ

\* os.environ after the answer to client.post: the token is published only
\* after raise_for_status and the test of access_token have passed
PublishedEnv(outcome, tok) ==
    IF outcome = "ok" THEN [environ EXCEPT !.PMT_ACCESS_TOKEN = tok] ELSE environ

\* _fetch_and_store_token: the answer to client.post, up to the close of the
\* client
fetch_post_response(p) ==
    /\ pc[p] = "post"
    /\ \/ /\ ~IsAbsoluteUrl(environ.PINMETO_API_URL)
          /\ Raise(p, "UnsupportedProtocol")
          /\ environ' = PublishedEnv("UnsupportedProtocol", NoToken)
          /\ UNCHANGED <<issued, token, grants>>
       \/ /\ IsAbsoluteUrl(environ.PINMETO_API_URL)
          /\ \E e \in PostErrors :
                /\ Raise(p, e)
                /\ environ' = PublishedEnv(e, NoToken)
          /\ UNCHANGED <<issued, token, grants>>
       \/ /\ IsAbsoluteUrl(environ.PINMETO_API_URL)
          /\ issued < MaxTokens
          /\ issued' = issued + 1
          /\ grants' = Append(grants, [to |-> p, began |-> calledAt[p]])
          /\ token' = [token EXCEPT ![p] = issued + 1]
          /\ environ' = PublishedEnv("ok", issued + 1)
          /\ pc' = [pc EXCEPT ![p] = "closing"]
          /\ UNCHANGED <<result, requested, __PMT_API_URL, __ACCOUNT_ID>>
    /\ UNCHANGED <<clock, ticks, chain, _cached_token, _cached_token_time, op,
                   now, next_url, all_data, are_all_pages_fetched, calledAt,
                   fetches, posts, attempted, answered, entity>>

\* _fetch_and_store_token returns: get_pmt_access_token(_async) stores the
\* token with the time it read on entry and returns
fetch_return(p) ==
    /\ pc[p] = "closing"
    /\ _cached_token' = token[p]
    /\ _cached_token_time' = StoredTime(p)
    /\ Continue(p)
    /\ UNCHANGED <<clock, ticks, environ, issued, chain, op, now, token, next_url,
                   all_data, are_all_pages_fetched, calledAt, fetches, posts,
                   attempted, answered, entity, grants>>

\* ----------------------------------------------------- helpers/helpers.py
\* the lines of the text format_list_response builds
format_list_response(response, all_fetched) ==
    IF response = << >>
    THEN <<EmptyText>>
    ELSE (IF all_fetched THEN << >> ELSE <<WarningLine>>)
         \o <<Divider>>
         \o [i \in 1..(2 * Len(response)) |->
                IF i % 2 = 1 THEN ItemStr[response[(i + 1) \div 2]] ELSE Divider]

\* what client.get, raise_for_status and response.json give for a page:
\* the decoded body, or None after the except clause
PageResponse(page) == IF page.ok THEN Body(page) ELSE NoneResp

\* the test that ends the walk as failed
PageFailed(resp) == FalsyResp(resp)

\* variants of the accumulation: an accumulator that outlives the call (the
\* next walk starts from the items a finished walk left), and a page added
\* twice
ExtendCarried(acc, resp) ==
    LET finished == {q \in Callers : pc[q] = "done" /\ op[q] = "get_locations"}
    IN (IF acc = << >> /\ finished # {}
        THEN all_data[CHOOSE q \in finished : TRUE] ELSE acc) \o GetData(resp)

ExtendTwice(acc, resp) == acc \o GetData(resp) \o GetData(resp)

\* what the walk adds to all_data for a page
Extend(acc, resp) == acc \o GetData(resp)

\* ------------------------------------------------------------------ main.py
\* variant of the test of the tools: the account id is not looked at
ToolConfigMissingUrlOnly == Falsy(__PMT_API_URL)

\* the test of both tools on the two globals
ToolConfigMissing == Falsy(__PMT_API_URL) \/ Falsy(__ACCOUNT_ID)

\* the test of get_locations on the walk's items
ListUnable(data) == data = << >>

\* what get_locations returns for the result of the walk
LocationsText(data, all_fetched) ==
    IF ListUnable(data) THEN <<UnableText>>
    ELSE format_list_response(data, all_fetched)

\* the answers of the single-entity endpoint: a failure (None after the
\* except clause), an empty JSON object, or a body
EntityAnswers == {"none", "empty", "body"}

\* `not data` in get_location: true of None and of an empty JSON object
LocationUnable(answer) == answer \in {"none", "empty"}

\* what get_location returns for the answer to its GET
LocationResult(answer) ==
    IF LocationUnable(answer) THEN <<UnableText>> ELSE <<LocationText>>

LocationUrl == 0 - 1      \* the single-entity address, apart from the pages'

\* a tool is called: the test of the globals, then the first make_pmt_request
\* (the callers are interchangeable: they call in the order of their ids)
CallTool(p, tool, url) ==
    /\ pc[0] = "serving"
    /\ pc[p] = "idle"
    /\ \A q \in Callers : q < p => pc[q] # "idle"
    /\ op' = [op EXCEPT ![p] = tool]
    /\ IF ToolConfigMissing
       THEN /\ pc' = [pc EXCEPT ![p] = "done"]
            /\ result' = [result EXCEPT ![p] = [exc |-> "none", text |-> <<MissingText>>]]
            /\ UNCHANGED next_url
       ELSE /\ pc' = [pc EXCEPT ![p] = "request"]
            /\ next_url' = [next_url EXCEPT ![p] = url]
            /\ UNCHANGED result
    /\ UNCHANGED <<clock, ticks, environ, issued, chain, _cached_token,
                   _cached_token_time, __PMT_API_URL, __ACCOUNT_ID, now, token,
                   all_data, are_all_pages_fetched, calledAt, fetches, posts,
                   requested, attempted, answered, entity, grants>>

get_location(p) == CallTool(p, "get_location", LocationUrl)

get_locations(p) == CallTool(p, "get_locations", 1)

\* the answer to the GET of get_location
get_location_response(p) ==
    /\ pc[p] = "get"
    /\ op[p] = "get_location"
    /\ \E answer \in (IF entity = "unasked" THEN EntityAnswers ELSE {entity}) :
         /\ entity' = answer
         /\ result' = [result EXCEPT ![p] = [exc |-> "none", text |-> LocationResult(answer)]]
    /\ pc' = [pc EXCEPT ![p] = "done"]
    /\ answered' = [answered EXCEPT ![p] = @ + 1]
    /\ UNCHANGED <<clock, ticks, environ, issued, chain, _cached_token,
                   _cached_token_time, __PMT_API_URL, __ACCOUNT_ID, op, now,
                   token, next_url, all_data, are_all_pages_fetched, calledAt,
                   fetches, posts, requested, attempted, grants>>

\* the answer to the GET of a page: one turn of the loop of
\* make_paginated_pmt_request, and the return of get_locations when it ends
get_locations_response(p) ==
    /\ pc[p] = "get"
    /\ op[p] = "get_locations"
    /\ \E page \in (IF next_url[p] <= Len(chain) THEN {chain[next_url[p]]}
                                                  ELSE Pages(next_url[p])) :
         /\ chain' = (IF next_url[p] <= Len(chain) THEN chain ELSE Append(chain, page))
         /\ LET resp == PageResponse(page)
                data == Extend(all_data[p], resp)
                next == GetNextUrl(resp)
            IN IF PageFailed(resp)
               THEN /\ are_all_pages_fetched' = [are_all_pages_fetched EXCEPT ![p] = FALSE]
                    /\ pc' = [pc EXCEPT ![p] = "done"]
                    /\ result' = [result EXCEPT ![p] =
                                     [exc |-> "none",
                                      text |-> LocationsText(all_data[p], FALSE)]]
                    /\ UNCHANGED <<all_data, next_url>>
               ELSE /\ all_data' = [all_data EXCEPT ![p] = data]
                    /\ next_url' = [next_url EXCEPT ![p] = next]
                    /\ UNCHANGED are_all_pages_fetched
                    /\ IF next = 0
                       THEN /\ pc' = [pc EXCEPT ![p] = "done"]
                            /\ result' = [result EXCEPT ![p] =
                                             [exc |-> "none",
                                              text |-> LocationsText(data, are_all_pages_fetched[p])]]
                       ELSE /\ pc' = [pc EXCEPT ![p] = "request"]
                            /\ UNCHANGED result
    /\ answered' = [answered EXCEPT ![p] = @ + 1]
    /\ UNCHANGED <<clock, ticks, environ, issued, _cached_token,
                   _cached_token_time, __PMT_API_URL, __ACCOUNT_ID, op, now,
                   token, calledAt, fetches, posts, requested, attempted,
                   entity, grants>>

Next ==
    \/ Tick
    \/ get_pmt_access_token
    \/ \E p \in Callers : get_location(p)
    \/ \E p \in Callers : get_locations(p)
    \/ \E p \in Callers : make_pmt_request(p)
    \/ \E p \in Procs : fetch_post_response(p)
    \/ \E p \in Procs : fetch_return(p)
    \/ \E p \in Callers : get_location_response(p)
    \/ \E p \in Callers : get_locations_response(p)

Spec == Init /\ [][Next]_vars

\* one tool call at a time: the startup and the first caller
SoloNext ==
    \/ Tick
    \/ get_pmt_access_token
    \/ get_location(1)
    \/ get_locations(1)
    \/ make_pmt_request(1)
    \/ \E p \in {0, 1} : fetch_post_response(p)
    \/ \E p \in {0, 1} : fetch_return(p)
    \/ get_location_response(1)
    \/ get_locations_response(1)

\* a step of the tool call
Progress ==
    \/ make_pmt_request(1)
    \/ fetch_post_response(1)
    \/ fetch_return(1)
    \/ get_location_response(1)
    \/ get_locations_response(1)

\* the event loop runs a coroutine that can run, and every HTTP call is
\* answered or times out after 30 seconds
Fairness == WF_vars(Progress)

SoloSpec == Init /\ [][SoloNext]_vars /\ Fairness

TypeOK ==
    /\ pc[0] \in {"start", "post", "closing", "serving", "crashed"}
    /\ \A p \in Callers : pc[p] \in {"idle", "request", "post", "closing", "get", "done"}
    /\ _cached_token \in 0..MaxTokens

\* ================================================================ claims
\* process p makes its get_token call in this step
GetTokenCalled(p) == pc[p] \in {"start", "request"} /\ pc'[p] # pc[p]

\* the cached token is present and younger than 59 minutes
Fresh == _cached_token # NoToken /\ clock - _cached_token_time < 59 * 60

\* the items of pages 1..n of the chain, in order
RECURSIVE ChainItems(_)
ChainItems(n) ==
    IF n = 0 THEN << >>
    ELSE ChainItems(n - 1) \o (IF chain[n].hasData THEN chain[n].data ELSE << >>)

\* caller p has returned from (or raised out of) a get_locations call that
\* reached the walk
WalkEnded(p) ==
    pc[p] = "done" /\ op[p] = "get_locations" /\ attempted[p] # << >>

\* C1: a get_token call made while a cached token exists and is younger than
\* 59 minutes returns that token, makes no exchange and no HTTP call, and
\* leaves the cached token and its time as they were.
C1_FreshTokenReturned ==
    [][\A p \in Procs :
         (GetTokenCalled(p) /\ Fresh) =>
            /\ token'[p] = _cached_token
            /\ pc'[p] \in {"get", "serving"}
            /\ fetches'[p] = 0 /\ posts'[p] = 0 /\ issued' = issued
            /\ _cached_token' = _cached_token
            /\ _cached_token_time' = _cached_token_time]_vars

\* a caller got the cached token at the last second of its validity
C1_Witness ==
    \E p \in Callers :
        /\ pc[p] = "get" /\ fetches[p] = 0
        /\ token[p] = _cached_token /\ token[p] # NoToken
        /\ calledAt[p] - _cached_token_time = 59 * 60 - 1

\* C2: a get_token call made while the cache is empty or 59 minutes old or
\* older calls the exchange exactly once (one client.post unless the
\* configuration test rejects the call first); when the exchange succeeds the
\* token returned is the token left in the cache, with the time of the call.
C2_StaleTokenExchanged ==
    [][\A p \in Procs :
         /\ (GetTokenCalled(p) /\ ~Fresh) =>
               /\ fetches'[p] = 1
               /\ pc'[p] \in {"post", "done", "crashed"}
               /\ pc'[p] = "post" <=> posts'[p] = 1
               /\ pc'[p] # "post" => posts'[p] = 0
         /\ pc[p] \in {"post", "closing"} =>
               /\ fetches'[p] = 1 /\ posts'[p] = 1
         /\ (pc[p] = "closing" /\ pc'[p] # "closing") =>
               /\ pc'[p] \in {"get", "serving"}
               /\ token'[p] # NoToken
               /\ _cached_token' = token'[p]
               /\ _cached_token_time' = calledAt[p]]_vars

\* a caller refreshed a token that was exactly 59 minutes old
C2_Witness ==
    \E p \in Callers :
        /\ pc[p] = "get" /\ fetches[p] = 1 /\ posts[p] = 1
        /\ token[p] = _cached_token
        /\ _cached_token_time = calledAt[p]
        /\ calledAt[p] = 59 * 60

\* C3: when every page of the chain is retrieved, the walk returns
\* complete = true and the concatenation of the pages' data lists in order.
C3_AllPagesConcatenated ==
    \A p \in Callers :
        (/\ WalkEnded(p) /\ result[p].exc = "none"
         /\ chain # << >> /\ chain[Len(chain)].nextUrl = 0
         /\ \A i \in DOMAIN chain : chain[i].ok) =>
            /\ are_all_pages_fetched[p]
            /\ all_data[p] = ChainItems(Len(chain))

\* the request for URL u of caller p gave no body: its GET failed, or the
\* call ended in an exception
RequestFailed(p, u) == result[p].exc # "none" \/ ~chain[u].ok

\* C4: when the request for page k fails, the walk returns complete = false
\* with the items of pages 1..k-1, and asks for no page after k.
C4_FailureEndsWalk ==
    \A p \in Callers :
        WalkEnded(p) =>
            LET k == attempted[p][Len(attempted[p])] IN
            RequestFailed(p, k) =>
                /\ result[p].exc = "none"
                /\ ~are_all_pages_fetched[p]
                /\ all_data[p] = ChainItems(k - 1)
                /\ attempted[p] = [i \in 1..k |-> i]

\* the items of the pages of a walk whose GET gave a body
RECURSIVE RetrievedItems(_)
RetrievedItems(urls) ==
    IF urls = << >> THEN << >>
    ELSE LET u == urls[Len(urls)] IN
         RetrievedItems(SubSeq(urls, 1, Len(urls) - 1))
            \o (IF chain[u].ok /\ chain[u].hasData THEN chain[u].data ELSE << >>)

\* C5: the completeness flag is false exactly when a requested page could not
\* be retrieved, whatever the body of a retrieved page is, and the accumulator
\* holds the items of the retrieved pages.
C5_FlagIffPageLost ==
    \A p \in Callers :
        (WalkEnded(p) /\ result[p].exc = "none") =>
            /\ ~are_all_pages_fetched[p] <=>
                   \E i \in 1..Len(requested[p]) : ~chain[requested[p][i]].ok
            /\ all_data[p] = RetrievedItems(requested[p])

\* C6: make_pmt_request never raises to its caller, also when the token
\* cannot be acquired.
C6_RequestNeverRaises ==
    \A p \in Callers :
        attempted[p] # << >> => result[p].exc = "none"

\* C7: a get_locations walk always returns (items, complete): a failure while
\* obtaining page k, a failed token refresh included, returns the items of
\* pages 1..k-1 with complete = false.
C7_WalkNeverRaises ==
    \A p \in Callers :
        WalkEnded(p) =>
            /\ result[p].exc = "none"
            /\ ~are_all_pages_fetched[p] =>
                   all_data[p] = ChainItems(Len(attempted[p]) - 1)

\* C8: when one of the API base URL, the application id and the application
\* secret is absent and get_token needs an exchange, the call fails with the
\* configuration error before any HTTP call, and the cache stays as it was.
C8_MissingConfigRejected ==
    \A p \in Procs :
        (/\ fetches[p] = 1
         /\ \/ Falsy(environ.PINMETO_API_URL)
            \/ Falsy(environ.PINMETO_APP_ID)
            \/ Falsy(environ.PINMETO_APP_SECRET)) =>
            /\ pc[p] \in {"crashed", "done"}
            /\ result[p].exc = "EnvironmentError"
            /\ posts[p] = 0
            /\ _cached_token = NoToken

\* C9: when the walk ends complete with no item, get_locations returns the
\* empty-collection placeholder.
C9_EmptyPlaceholder ==
    \A p \in Callers :
        (/\ WalkEnded(p) /\ result[p].exc = "none"
         /\ all_data[p] = << >> /\ are_all_pages_fetched[p]) =>
            result[p].text = <<EmptyText>>

\* caller p calls its tool in this step
ToolCalled(p) == pc[p] = "idle" /\ pc'[p] # "idle"

\* C10: when the API base URL or the account id is absent from the
\* configuration, both tools return the missing-configuration text, raise
\* nothing, issue no request and no exchange, and leave the cache as it was.
C10_ToolConfigMissing ==
    [][\A p \in Callers :
         (/\ ToolCalled(p)
          /\ Falsy(environ.PINMETO_API_URL) \/ Falsy(environ.PINMETO_ACCOUNT_ID)) =>
            /\ op'[p] \in {"get_location", "get_locations"}
            /\ pc'[p] = "done"
            /\ result'[p] = [exc |-> "none", text |-> <<MissingText>>]
            /\ attempted'[p] = << >> /\ requested'[p] = << >>
            /\ fetches' = fetches /\ posts' = posts /\ issued' = issued
            /\ environ' = environ
            /\ _cached_token' = _cached_token
            /\ _cached_token_time' = _cached_token_time]_vars

\* each tool has answered with the missing-configuration text
C10_Witness ==
    /\ Falsy(environ.PINMETO_ACCOUNT_ID)
    /\ \E p, q \in Callers :
         /\ pc[p] = "done" /\ op[p] = "get_location"
         /\ pc[q] = "done" /\ op[q] = "get_locations"
         /\ result[p].text = <<MissingText>> /\ result[q].text = <<MissingText>>
         /\ _cached_token # NoToken

\* caller p has returned from (or raised out of) a get_location call that
\* reached make_pmt_request
FetchEnded(p) ==
    pc[p] = "done" /\ op[p] = "get_location" /\ attempted[p] # << >>

\* str() of the decoded body of the single entity
EntityText(answer) == IF answer = "empty" THEN <<"{}">> ELSE <<LocationText>>

\* C11: get_location returns the "unable to fetch" text exactly when its
\* request gave the absent value, returns the text of the decoded body whenever
\* the request succeeded, and never raises.
C11_UnableIffFetchFailed ==
    \A p \in Callers :
        FetchEnded(p) =>
            /\ result[p].exc = "none"
            /\ result[p].text = <<UnableText>> <=> entity = "none"
            /\ entity # "none" => result[p].text = EntityText(entity)

\* caller p has returned (items, complete) from the walk of get_locations
WalkReturned(p) == WalkEnded(p) /\ result[p].exc = "none"

\* C12: two walks from the same start URL over the same pages, with the same
\* outcome of every page, return the same (items, complete), whatever the
\* token cache held when each began; nothing of one walk is seen by the other.
C12_WalkIdempotent ==
    \A p, q \in Callers :
        (WalkReturned(p) /\ WalkReturned(q)) =>
            /\ all_data[p] = all_data[q]
            /\ are_all_pages_fetched[p] = are_all_pages_fetched[q]
            /\ result[p] = result[q]

\* two walks over two pages returned items, the first on the cached token and
\* the second after a refresh
C12_Witness ==
    /\ WalkReturned(1) /\ WalkReturned(2)
    /\ Len(requested[1]) = 2 /\ Len(requested[2]) = 2
    /\ all_data[1] # << >>
    /\ fetches[1] = 0 /\ fetches[2] = 1

\* s is a prefix of t
IsPrefix(s, t) == Len(s) <= Len(t) /\ SubSeq(t, 1, Len(s)) = s

\* every page of the chain is known: the last one names no next page
ChainComplete == chain # << >> /\ chain[Len(chain)].nextUrl = 0

\* C13 (as stated): the accumulator is always a prefix of the items of all
\* pages, and a walk that returns with the flag false returns a strict prefix
\* of the full result.
C13_StrictPrefix ==
    \A p \in Callers :
        op[p] = "get_locations" =>
            /\ IsPrefix(all_data[p], ChainItems(Len(chain)))
            /\ (WalkReturned(p) /\ ~are_all_pages_fetched[p] /\ ChainComplete) =>
                   all_data[p] # ChainItems(Len(chain))

\* C13 (amended): the accumulator is always a prefix of the items of all
\* pages, and a walk that returns with the flag false returns the items of the
\* pages before the one it stopped at, a prefix of the full result that need
\* not be strict.
C13_Prefix ==
    \A p \in Callers :
        op[p] = "get_locations" =>
            /\ IsPrefix(all_data[p], ChainItems(Len(chain)))
            /\ (WalkReturned(p) /\ ~are_all_pages_fetched[p]) =>
                   /\ all_data[p] = ChainItems(Len(attempted[p]) - 1)
                   /\ IsPrefix(all_data[p], ChainItems(Len(chain)))

\* a walk lost its second and last page, which holds no item: it returns the
\* flag false with the full result
C13_Witness ==
    \E p \in Callers :
        /\ WalkReturned(p) /\ ~are_all_pages_fetched[p]
        /\ ChainComplete /\ Len(chain) = 2 /\ ~chain[2].ok
        /\ all_data[p] # << >>
        /\ all_data[p] = ChainItems(Len(chain))

\* the URLs of a sequence are the pages 1, 2, ... in order, each once
EachPageOnce(urls) == \A i \in 1..Len(urls) : urls[i] = i

\* C14: over a finite chain whose next links never lead back, the walk ends,
\* at a page without a next link or at the first request that fails, and it
\* asks for no page twice.
C14_WalkTerminates ==
    /\ [](\A p \in Callers :
            op[p] = "get_locations" =>
               /\ EachPageOnce(attempted[p]) /\ EachPageOnce(requested[p])
               /\ Len(attempted[p]) <= MaxPages
               /\ WalkEnded(p) =>
                     LET k == attempted[p][Len(attempted[p])] IN
                     \/ result[p].exc # "none"
                     \/ ~chain[k].ok
                     \/ chain[k].nextUrl = 0)
    /\ \A p \in Callers :
          (op[p] = "get_locations" /\ pc[p] # "done") ~> (pc[p] = "done")

\* a walk ended at the second page, which has no next link, after one request
\* for each page
C14_Witness ==
    \E p \in Callers :
        /\ WalkReturned(p) /\ are_all_pages_fetched[p]
        /\ requested[p] = <<1, 2>> /\ answered[p] = 2
        /\ chain[2].ok /\ chain[2].nextUrl = 0

\* GETs of caller p that have been issued and not answered
Outstanding(p) == Len(requested[p]) - answered[p]

\* C15: a walk has at most one page request outstanding, and asks for a page
\* only when the request for the page before has been answered, also while
\* another walk runs.
C15_OneRequestAtATime ==
    \A p \in Callers :
        /\ Outstanding(p) \in {0, 1}
        /\ Outstanding(p) = 1 <=> pc[p] = "get"
        /\ op[p] = "get_locations" => EachPageOnce(requested[p])

\* two walks run at once: one waits for its second page, the other for its
\* first
C15_Witness ==
    /\ op[1] = "get_locations" /\ op[2] = "get_locations"
    /\ pc[1] = "get" /\ pc[2] = "get"
    /\ requested[1] = <<1, 2>> /\ answered[1] = 1
    /\ requested[2] = <<1>> /\ answered[2] = 0

\* an exchange of a process other than p is in flight
OtherInFlight(p) == \E q \in Procs \ {p} : pc[q] \in {"post", "closing"}

\* C16: a get_token call made while the cache is stale or absent and another
\* call's exchange is in flight is not held back and does not share that
\* exchange: it posts its own, and the token it returns is the one the
\* endpoint granted to it.
C16_NoMutualExclusion ==
    [][\A p \in Procs :
         /\ (GetTokenCalled(p) /\ ~Fresh /\ ~ConfigMissing /\ OtherInFlight(p)) =>
               /\ pc'[p] = "post" /\ fetches'[p] = 1 /\ posts'[p] = 1
         /\ (pc[p] = "post" /\ pc'[p] = "closing") =>
               /\ issued' = issued + 1
               /\ token'[p] = issued'
               /\ grants'[issued'].to = p
         /\ (pc[p] = "closing" /\ pc'[p] # "closing") =>
               /\ token'[p] = token[p]
               /\ grants[token[p]].to = p
               /\ \A q \in Procs \ {p} :
                      pc[q] = "closing" => token[q] # token[p]]_vars

\* two callers found the cache stale and each has its own exchange in flight
C16_Witness ==
    /\ pc[1] = "post" /\ pc[2] = "post"
    /\ posts[1] = 1 /\ posts[2] = 1
    /\ _cached_token # NoToken

\* the configuration the exchange needs is absent or unusable
StartupConfigError ==
    \/ ~IsAbsoluteUrl(environ.PINMETO_API_URL)
    \/ Falsy(environ.PINMETO_APP_ID)
    \/ Falsy(environ.PINMETO_APP_SECRET)

\* C17: the startup halts only on a configuration error; a failed exchange
\* with the configuration in place lets the server go on to serve.
C17_OnlyConfigHaltsStartup ==
    pc[0] = "crashed" => StartupConfigError

\* no get_token call is between its entry and its return
NoCallInProgress == \A p \in Procs : pc[p] \notin {"post", "closing"}

\* C18: whenever no get_token call is in progress, the token published in
\* os.environ is the cached token (or both are unset).
C18_EnvEqualsCache ==
    NoCallInProgress => environ.PMT_ACCESS_TOKEN = _cached_token

\* the step with which the get_token call of p fails
GetTokenFails(p) ==
    /\ pc[p] \in {"start", "request", "post"}
    /\ pc'[p] \in {"done", "crashed"}
    /\ result'[p].exc # "none"

\* some get_token call has failed
SomeCallFailed == \E q \in Procs : result[q].exc # "none"

\* C19: a get_token call whose exchange fails hands the error to its caller,
\* writes neither the cached token, nor its time, nor the published token,
\* posts at most once, and the call made after it exchanges again unless the
\* cache is still fresh.
C19_FailureLeavesCache ==
    [][\A p \in Procs :
         /\ GetTokenCalled(p) =>
               /\ _cached_token' = _cached_token
               /\ _cached_token_time' = _cached_token_time
               /\ environ' = environ
         /\ GetTokenFails(p) =>
               /\ result'[p].exc \in PostErrors \cup {"EnvironmentError", "UnsupportedProtocol"}
               /\ _cached_token' = _cached_token
               /\ _cached_token_time' = _cached_token_time
               /\ environ' = environ
               /\ issued' = issued
               /\ fetches'[p] = 1 /\ posts'[p] \in {0, 1}
               /\ result'[p].exc = "EnvironmentError" <=> posts'[p] = 0
         /\ (GetTokenCalled(p) /\ SomeCallFailed) =>
               IF Fresh
               THEN fetches'[p] = 0 /\ token'[p] = _cached_token
               ELSE fetches'[p] = 1 /\ pc'[p] \in {"post", "done"}]_vars

\* the exchange of caller 1 failed at the endpoint with the stale startup
\* token left in place, and the call of caller 2 exchanges again
C19_Witness ==
    /\ pc[1] = "done" /\ result[1].exc \in PostErrors /\ posts[1] = 1
    /\ _cached_token = 1 /\ _cached_token_time = 0
    /\ environ.PMT_ACCESS_TOKEN = 1
    /\ pc[2] = "post" /\ fetches[2] = 1 /\ calledAt[2] >= 59 * 60

\* C20: the cached time is the time read at the start of the call whose
\* exchange gave the cached token, and a token a call holds was asked for
\* less than 59 minutes before that call began (a call that has returned is
\* at "closing", "get" or "serving").
C20_TokenAndTimePaired ==
    /\ _cached_token # NoToken =>
          /\ _cached_token \in DOMAIN grants
          /\ _cached_token_time = grants[_cached_token].began
    /\ \A p \in Procs :
          (pc[p] \in {"closing", "get", "serving"} /\ token[p] # NoToken) =>
             /\ calledAt[p] - grants[token[p]].began >= 0
             /\ calledAt[p] - grants[token[p]].began < 59 * 60

\* two exchanges have overlapped and the one granted first stored last: the
\* cache holds its token with its time, after the startup's pair and the
\* other caller's pair were each written and replaced
C20_Witness ==
    /\ token[1] = 2 /\ token[2] = 3
    /\ pc[1] = "get" /\ pc[2] = "get"
    /\ environ.PMT_ACCESS_TOKEN = 3
    /\ _cached_token = 2
    /\ _cached_token_time = grants[2].began
    /\ grants[2].began > grants[1].began
====
